---- MODULE Spec2Model ----
(***************************************************************************)
(* A model of export-events.py: the git-archaeology merge, the date        *)
(* filter, the HTML enrichment pass, the flattener with its GPS parser,    *)
(* and the control flow of main().                                         *)
(*                                                                         *)
(* JSON values are tagged records [t, v] (v always a string, so that any   *)
(* two values can be compared); a JSON object is a TLA+ record whose       *)
(* fields are its keys, and an absent key is an absent field.  A Python    *)
(* dict that the code iterates is a sequence of [k, v] entries in          *)
(* insertion order.                                                        *)
(***************************************************************************)
EXTENDS Integers, Sequences, FiniteSets, TLC

VARIABLES
    pc,               \* position in extract_all_events / enrich / flatten
    exc,              \* name of the exception that ended the run, or ""
    domain,           \* which set of records the snapshots draw from
    commits,          \* get_all_commits(): number of history points
    idx,              \* history points processed so far
    history,          \* content `git show` gave for each processed point
    returned,         \* what extract_events_from_commit returned for each
    events_by_id,     \* the merged mapping (insertion ordered)
    total_extracted,  \* the counter of line 218
    start_date,       \* lower bound handed to extract_all_events
    end_date,         \* upper bound handed to extract_all_events
    pyver,            \* the interpreter: "3.10" or "3.11"
    fidx,             \* entries of events_by_id the filter has looked at
    filtered,         \* the filter's result mapping
    result,           \* what extract_all_events returned
    flat_event,       \* the record handed to flatten_event_for_export
    flattened,        \* the FlatRecord it returned
    enriched,         \* the mapping enrich_with_html works on, in place
    eidx,             \* entries of it the enrichment loop has been through
    docs,             \* the document the loop found for each of them
    args,             \* main: the parsed command line
    html_dir_exists,  \* main: whether args.html_dir is there
    stages,           \* main: the pipeline stages started, in order
    written,          \* main: whether the output path has been written to
    events_list       \* main: the FlatRecords of line 515

mergeVars == <<domain, commits, idx, history, returned, events_by_id, total_extracted>>
filterVars == <<start_date, end_date, pyver, fidx, filtered, result>>
flatVars == <<flat_event, flattened>>
enrichVars == <<enriched, eidx, docs>>
mainVars == <<args, html_dir_exists, stages, written, events_list>>
vars == <<pc, exc, mergeVars, filterVars, flatVars, enrichVars, mainVars>>

----------------------------------------------------------------------------
(* JSON values and Python's view of them *)

JStr(s) == [t |-> "str", v |-> s]
JInt(s) == [t |-> "int", v |-> s]
JNull == [t |-> "null", v |-> ""]

\* str(x): a string is itself, an int its digits, None is "None"
PyStr(x) ==
    CASE x.t = "str" -> x.v
      [] x.t = "int" -> x.v
      [] x.t = "null" -> "None"

\* truth of a JSON value; a list here always holds one element
IsTrue(x) ==
    CASE x.t = "str" -> x.v # ""
      [] x.t = "int" -> x.v # "0"
      [] x.t = "null" -> FALSE
      [] x.t = "bool" -> x.v = "true"
      [] x.t = "list" -> TRUE

\* a list element is a JSON object unless it is a tagged scalar
IsDict(e) == "t" \notin DOMAIN e

\* dict.get(key, default)
Get(e, key, default) == IF key \in DOMAIN e THEN e[key] ELSE default

\* the value of the record variables while no record is being flattened
NoEvent == [id |-> JStr("")]

\* the command line of a run of one stage alone
NoArgs == [output |-> "", include_html |-> FALSE, start |-> "", end |-> ""]

\* the variables of the stages a specification leaves out
IdleFlat == flat_event = NoEvent /\ flattened = NoEvent

IdleEnrich == enriched = <<>> /\ eidx = 0 /\ docs = <<>>

IdleMain ==
    /\ args = NoArgs
    /\ html_dir_exists = FALSE
    /\ stages = <<>>
    /\ written = FALSE
    /\ events_list = <<>>

----------------------------------------------------------------------------
(* Insertion-ordered dict *)

DictKeys(d) == {d[i].k : i \in 1..Len(d)}

DictHas(d, key) == \E i \in 1..Len(d) : d[i].k = key

DictGet(d, key) == d[CHOOSE i \in 1..Len(d) : d[i].k = key].v

\* d[key] = value: an existing key keeps its place, a new one goes last
DictSet(d, key, value) ==
    IF DictHas(d, key)
    THEN [i \in 1..Len(d) |-> IF d[i].k = key THEN [k |-> key, v |-> value] ELSE d[i]]
    ELSE Append(d, [k |-> key, v |-> value])

----------------------------------------------------------------------------
(* Timestamps.  A datetime is a calendar day (0 is 2024-01-01), a time of  *)
(* day in milliseconds, and, when it is timezone-aware, its UTC offset.    *)

SecMs == 1000
DayMs == 24 * 60 * 60 * SecMs
EndOfDaySecond == (23 * 3600 + 59 * 60 + 59) * SecMs

Naive(day, tod) == [set |-> TRUE, day |-> day, tod |-> tod, aware |-> FALSE, off |-> 0]
Aware(day, tod, off) == [set |-> TRUE, day |-> day, tod |-> tod, aware |-> TRUE, off |-> off]
None == [set |-> FALSE, day |-> 0, tod |-> 0, aware |-> FALSE, off |-> 0]

Parsed(dt) == [ok |-> TRUE, dt |-> dt]
ValueError == [ok |-> FALSE, dt |-> None]

\* datetime.fromisoformat on the texts the runs use.  The form with a space
\* before the offset, which is the one the data holds (line 240), is read
\* by Python 3.11 and later and is a ValueError on 3.10.
FromIsoFormat(s, ver) ==
    CASE s = "2024-01-01" -> Parsed(Naive(0, 0))
      [] s = "2024-01-02" -> Parsed(Naive(1, 0))
      [] s = "2024-01-01T12:30:45.250" -> Parsed(Naive(0, (12 * 3600 + 30 * 60 + 45) * SecMs + 250))
      [] s = "2023-12-31 23:59:59.999" -> Parsed(Naive(-1, EndOfDaySecond + 999))
      [] s = "2024-01-01 00:00:00" -> Parsed(Naive(0, 0))
      [] s = "2024-01-02 23:59:59" -> Parsed(Naive(1, EndOfDaySecond))
      [] s = "2024-01-02 23:59:59.001" -> Parsed(Naive(1, EndOfDaySecond + 1))
      [] s = "2024-01-01T00:00:00+01:00" -> Parsed(Aware(0, 0, 3600 * SecMs))
      [] s = "2024-01-02T23:59:59+01:00" -> Parsed(Aware(1, EndOfDaySecond, 3600 * SecMs))
      [] s = "2024-01-01 12:00:00 +01:00" ->
            IF ver = "3.10" THEN ValueError
            ELSE Parsed(Aware(0, 12 * 3600 * SecMs, 3600 * SecMs))
      [] OTHER -> ValueError

\* .replace(hour=, minute=, second=): the sub-second part and the offset stay
ReplaceHMS(dt, h, m, sec) ==
    [dt EXCEPT !.tod = (h * 3600 + m * 60 + sec) * SecMs + (dt.tod % SecMs)]

\* main, lines 480-486: --start-date
ParseStartDate(arg, ver) ==
    IF arg = "" THEN Parsed(None)
    ELSE LET p == FromIsoFormat(arg, ver)
         IN IF p.ok THEN Parsed(ReplaceHMS(p.dt, 0, 0, 0)) ELSE ValueError

\* main, lines 488-494: --end-date
ParseEndDate(arg, ver) ==
    IF arg = "" THEN Parsed(None)
    ELSE LET p == FromIsoFormat(arg, ver)
         IN IF p.ok THEN Parsed(ReplaceHMS(p.dt, 23, 59, 59)) ELSE ValueError

\* the command line: "" is an option that was not given
StartArgs == {"", "2024-01-01", "2024-01-01T12:30:45.250", "01/01/2024"}
EndArgs == {"", "2024-01-02", "bogus"}

\* datetime's ordering: two naive values by wall clock, two aware values
\* by instant, one of each is a TypeError
Wall(dt) == dt.day * DayMs + dt.tod
Instant(dt) == Wall(dt) - dt.off
Comparable(a, b) == a.aware = b.aware
Before(a, b) == IF a.aware THEN Instant(a) < Instant(b) ELSE Wall(a) < Wall(b)

----------------------------------------------------------------------------
(* Inputs of the merge *)

MaxCommits == 3

RecA == [id |-> JStr("123"), name |-> JStr("A")]
RecB == [id |-> JStr("123"), name |-> JStr("B")]
RecInt == [id |-> JInt("123"), name |-> JStr("C")]
RecOther == [id |-> JStr("456"), name |-> JStr("A")]
RecNoId == [name |-> JStr("A")]
RecNullId == [id |-> JNull, name |-> JStr("A")]
RecEmptyId == [id |-> JStr(""), name |-> JStr("A")]
Scalar == JInt("5")

\* records with an identity, for the last-write-wins runs
MergeRecords == {RecA, RecB, RecInt, RecOther}
\* records with and without a usable identity, and a non-object element
IdentityRecords == {RecA, RecOther, RecNoId, RecNullId, RecEmptyId, Scalar}

Records == IF domain = "merge" THEN MergeRecords ELSE IdentityRecords

\* a snapshot: no record, one, or two different ones in either order
EventLists ==
    {<<>>} \cup {<<r>> : r \in Records}
           \cup {p \in Records \X Records : p[1] # p[2]}

\* what `git show <sha>:events.json` can give: no content at all (the
\* command failed), or a text that is empty, a JSON list cut short, a JSON
\* value that is not a list (an object wrapping the records), or a list
Contents ==
    {[kind |-> "fetch_failed", events |-> <<>>], [kind |-> "empty", events |-> <<>>]}
    \cup {[kind |-> "truncated", events |-> <<RecB>>]}
    \cup {[kind |-> "non_list", events |-> <<RecB>>]}
    \cup {[kind |-> "list", events |-> l] : l \in EventLists}

----------------------------------------------------------------------------
(* extract_events_from_commit, lines 175-195 *)

ExtractEventsFromCommit_Lenient(content) ==
    IF content.kind = "fetch_failed" THEN <<>> ELSE content.events

\* CalledProcessError and JSONDecodeError are caught and give []; a parsed
\* value that is not a list gives []
ExtractEventsFromCommit(content) ==
    CASE content.kind = "fetch_failed" -> <<>>
      [] content.kind \in {"empty", "truncated"} -> <<>>
      [] content.kind = "non_list" -> <<>>
      [] content.kind = "list" -> content.events

----------------------------------------------------------------------------
(* the merge loop of extract_all_events, lines 220-226 *)

\* event_id = str(event.get('id', ''))
EventId(event) == PyStr(Get(event, "id", JStr("")))

MergeOne_FirstWins(d, event) ==
    IF EventId(event) = "" \/ DictHas(d, EventId(event))
    THEN d
    ELSE DictSet(d, EventId(event), event)

\* one turn of `for event in events` on an object: skip an empty id, else
\* events_by_id[event_id] = event
MergeOne(d, event) ==
    IF EventId(event) = "" THEN d ELSE DictSet(d, EventId(event), event)

\* the whole inner loop; event.get on an element that is no object raises
\* AttributeError, which nothing catches
RECURSIVE MergeEvents(_, _, _)
MergeEvents(d, events, i) ==
    IF i > Len(events) THEN [ok |-> TRUE, d |-> d]
    ELSE IF ~IsDict(events[i]) THEN [ok |-> FALSE, d |-> d]
    ELSE MergeEvents(MergeOne(d, events[i]), events, i + 1)

----------------------------------------------------------------------------
(* get_all_commits, lines 148-172, as extract_all_events calls it *)

GetAllCommits ==
    /\ pc = "start"
    /\ \/ \E n \in 0..MaxCommits :
            /\ commits' = n
            /\ pc' = "walk"
            /\ exc' = exc
       \/ \* git log failed: logger.error and sys.exit(1)
          /\ commits' = commits
          /\ pc' = "exit"
          /\ exc' = "SystemExit: git log failed"
    /\ UNCHANGED <<domain, idx, history, returned, events_by_id, total_extracted>>
    /\ UNCHANGED <<filterVars, flatVars, enrichVars, mainVars>>

\* one turn of `for commit_sha, commit_date in commits`, lines 216-226
ExtractCommit ==
    /\ pc = "walk"
    /\ idx < commits
    /\ \E content \in Contents :
         LET events == ExtractEventsFromCommit(content)
             m == MergeEvents(events_by_id, events, 1)
         IN /\ history' = Append(history, content)
            /\ returned' = Append(returned, events)
            /\ total_extracted' = total_extracted + Len(events)
            /\ events_by_id' = m.d
            /\ idx' = idx + 1
            /\ pc' = IF m.ok THEN "walk" ELSE "crashed"
            /\ exc' = IF m.ok THEN exc ELSE "AttributeError"
    /\ UNCHANGED <<domain, commits>>
    /\ UNCHANGED <<filterVars, flatVars, enrichVars, mainVars>>


\* lines 232 and 256: no bound given, the merged mapping is the result
ReturnUnfiltered ==
    /\ pc = "walk"
    /\ idx = commits
    /\ ~(start_date.set \/ end_date.set)
    /\ result' = events_by_id
    /\ pc' = "returned"
    /\ UNCHANGED <<exc, mergeVars, start_date, end_date, pyver, fidx, filtered, flatVars, enrichVars, mainVars>>

InitMergeWith(dom) ==
    /\ pc = "start"
    /\ exc = ""
    /\ domain = dom
    /\ commits = 0
    /\ idx = 0
    /\ history = <<>>
    /\ returned = <<>>
    /\ events_by_id = <<>>
    /\ total_extracted = 0
    /\ start_date = None
    /\ end_date = None
    /\ pyver = "3.11"
    /\ fidx = 0
    /\ filtered = <<>>
    /\ result = <<>>
    /\ IdleFlat
    /\ IdleEnrich
    /\ IdleMain

InitMerge == InitMergeWith("merge")

InitIdentity == InitMergeWith("identity")

NextMerge == GetAllCommits \/ ExtractCommit \/ ReturnUnfiltered

SpecMerge == InitMerge /\ [][NextMerge]_vars

SpecIdentity == InitIdentity /\ [][NextMerge]_vars

----------------------------------------------------------------------------
(* Properties of the merge *)

\* the identities the code computes for the objects of a snapshot
SnapHas(snap, id) ==
    \E j \in 1..Len(snap) : IsDict(snap[j]) /\ EventId(snap[j]) = id

IdentitiesSeen ==
    {id \in {"123", "456", "None"} : \E k \in 1..Len(returned) : SnapHas(returned[k], id)}

\* the last snapshot, in walk order, that holds a record of identity id
LastSnapshotWith(id) ==
    CHOOSE k \in 1..Len(returned) :
        /\ SnapHas(returned[k], id)
        /\ \A k2 \in (k + 1)..Len(returned) : ~SnapHas(returned[k2], id)

\* the version of id in a snapshot (its last entry, should it hold several)
VersionIn(snap, id) ==
    snap[CHOOSE j \in 1..Len(snap) :
            /\ IsDict(snap[j]) /\ EventId(snap[j]) = id
            /\ \A j2 \in (j + 1)..Len(snap) : ~(IsDict(snap[j2]) /\ EventId(snap[j2]) = id)]

EntriesFor(d, id) == {i \in 1..Len(d) : d[i].k = id}

\* C1: last-write-wins.  At every point of the walk, and in the mapping
\* returned, every identity that occurs in a snapshot processed so far has
\* exactly one entry in the merged mapping, and that entry is the whole
\* record found in the last snapshot that contains the identity; the
\* mapping holds nothing else.
C1_LastWriteWins ==
    pc \in {"walk", "returned"} =>
        /\ DictKeys(events_by_id) = IdentitiesSeen
        /\ \A id \in IdentitiesSeen :
              /\ Cardinality(EntriesFor(events_by_id, id)) = 1
              /\ DictGet(events_by_id, id) = VersionIn(returned[LastSnapshotWith(id)], id)
        /\ (pc = "returned" => result = events_by_id)

\* C1 witness: the three-snapshot scenario: "123" arrives named A, the
\* second snapshot omits it, the third renames it B, and the result holds
\* exactly one record "123", named B.
C1_Witness ==
    /\ pc = "returned"
    /\ Len(returned) = 3
    /\ returned[1] = <<RecA, RecOther>>
    /\ returned[2] = <<RecOther>>
    /\ returned[3] = <<RecB>>
    /\ DictGet(result, "123") = RecB
    /\ Cardinality(EntriesFor(result, "123")) = 1

\* the history points whose content is a JSON list
RECURSIVE GoodPoints(_)
GoodPoints(h) ==
    IF h = <<>> THEN <<>>
    ELSE IF h[1].kind = "list" THEN <<h[1]>> \o GoodPoints(Tail(h))
    ELSE GoodPoints(Tail(h))

\* the mapping extract_all_events builds from a sequence of history points
RECURSIVE MergeAll(_, _)
MergeAll(d, h) ==
    IF h = <<>> THEN d
    ELSE MergeAll(MergeEvents(d, ExtractEventsFromCommit(h[1]), 1).d, Tail(h))

Unusable(e) ==
    \/ "id" \notin DOMAIN e
    \/ e.id.t = "null"
    \/ PyStr(e.id) = ""

\* C10: every key of the merged mapping is the non-empty string coercion
\* of the 'id' of the record stored under it, and no record with a
\* missing, null or empty identity is ever stored in the mapping.
C10_UnusableIdentityDropped ==
    \A i \in 1..Len(events_by_id) :
        /\ events_by_id[i].k # ""
        /\ events_by_id[i].k = EventId(events_by_id[i].v)
        /\ ~Unusable(events_by_id[i].v)

----------------------------------------------------------------------------
(* the date filter of extract_all_events, lines 231-254 *)

\* one turn of the loop of line 234: "keep", "skip", or the exception that
\* leaves the function
FilterOne(event, lo, hi, ver) ==
    LET x == Get(event, "datetime", JStr(""))
        p == FromIsoFormat(x.v, ver)
    IN IF ~IsTrue(x) THEN "skip"
       ELSE IF x.t # "str" THEN "TypeError"
       ELSE IF ~p.ok THEN "skip"
       ELSE IF lo.set /\ ~Comparable(p.dt, lo) THEN "TypeError"
       ELSE IF lo.set /\ Before(p.dt, lo) THEN "skip"
       ELSE IF hi.set /\ ~Comparable(p.dt, hi) THEN "TypeError"
       ELSE IF hi.set /\ Before(hi, p.dt) THEN "skip"
       ELSE "keep"

\* lines 232-233
BeginFilter ==
    /\ pc = "walk"
    /\ idx = commits
    /\ start_date.set \/ end_date.set
    /\ filtered' = <<>>
    /\ fidx' = 0
    /\ pc' = "filter"
    /\ UNCHANGED <<exc, mergeVars, start_date, end_date, pyver, result, flatVars, enrichVars, mainVars>>

\* lines 234-251
FilterEvent ==
    /\ pc = "filter"
    /\ fidx < Len(events_by_id)
    /\ LET entry == events_by_id[fidx + 1]
           o == FilterOne(entry.v, start_date, end_date, pyver)
       IN /\ fidx' = fidx + 1
          /\ filtered' = IF o = "keep" THEN DictSet(filtered, entry.k, entry.v) ELSE filtered
          /\ pc' = IF o \in {"keep", "skip"} THEN "filter" ELSE "crashed"
          /\ exc' = IF o \in {"keep", "skip"} THEN exc ELSE o
    /\ UNCHANGED <<mergeVars, start_date, end_date, pyver, result, flatVars, enrichVars, mainVars>>

\* lines 253-254
ReturnFiltered ==
    /\ pc = "filter"
    /\ fidx = Len(events_by_id)
    /\ result' = filtered
    /\ pc' = "returned"
    /\ UNCHANGED <<exc, mergeVars, start_date, end_date, pyver, fidx, filtered, flatVars, enrichVars, mainVars>>

MaxFiltered == 2

DatetimeValues ==
    {JNull, JStr(""), JInt("5"), JStr("yesterday")}
    \cup {JStr(s) : s \in {"2023-12-31 23:59:59.999", "2024-01-01 00:00:00",
                           "2024-01-02 23:59:59", "2024-01-02 23:59:59.001",
                           "2024-01-01T00:00:00+01:00", "2024-01-02T23:59:59+01:00",
                           "2024-01-01 12:00:00 +01:00"}}

FilterInputs ==
    {[id |-> JStr("1")]} \cup {[id |-> JStr("1"), datetime |-> x] : x \in DatetimeValues}

\* the merged mappings of one snapshot of n records with ids "1".."n"
MergedOf(n) ==
    {d \in [1..n -> [k : {"1", "2", "3"}, v : FilterInputs \cup
                      {[e EXCEPT !.id = JStr(i)] : e \in FilterInputs, i \in {"2", "3"}}]] :
        \A i \in 1..n : d[i].k = ToString(i) /\ EventId(d[i].v) = d[i].k}

\* the state at line 231: the walk is over, the bounds are those main built
InitFilter ==
    /\ pc = "walk"
    /\ exc = ""
    /\ domain = "filter"
    /\ commits = 1
    /\ idx = 1
    /\ pyver \in {"3.10", "3.11"}
    /\ \E n \in 0..MaxFiltered : events_by_id \in MergedOf(n)
    /\ history = <<[kind |-> "list", events |-> [i \in 1..Len(events_by_id) |-> events_by_id[i].v]]>>
    /\ returned = <<history[1].events>>
    /\ total_extracted = Len(events_by_id)
    /\ \E a \in StartArgs : ParseStartDate(a, pyver).ok /\ start_date = ParseStartDate(a, pyver).dt
    /\ \E b \in EndArgs : ParseEndDate(b, pyver).ok /\ end_date = ParseEndDate(b, pyver).dt
    /\ fidx = 0
    /\ filtered = <<>>
    /\ result = <<>>
    /\ IdleFlat
    /\ IdleEnrich
    /\ IdleMain

NextFilter == BeginFilter \/ FilterEvent \/ ReturnFiltered \/ ReturnUnfiltered

SpecFilter == InitFilter /\ [][NextFilter]_vars

\* the bounds --start-date D and --end-date D give: 00:00:00.000 and 23:59:59.000
DateOnlyBounds ==
    /\ start_date.set => start_date.tod = 0
    /\ end_date.set => end_date.tod = EndOfDaySecond

AwareDatetime(event) ==
    /\ "datetime" \in DOMAIN event
    /\ event.datetime.t = "str"
    /\ event.datetime.v \in {"2024-01-01T00:00:00+01:00", "2024-01-02T23:59:59+01:00",
                             "2024-01-01 12:00:00 +01:00"}

\* read by the clock the record states, as the bounds are
WithinBounds(event) ==
    LET dt == FromIsoFormat(event.datetime.v, "3.11").dt
    IN /\ start_date.set => Wall(dt) >= Wall(start_date)
       /\ end_date.set => Wall(dt) <= Wall(end_date)

\* C2: with bounds built from calendar dates, the filter gets through every
\* record that carries a timezone-aware 'datetime' without ending the run,
\* and keeps it exactly when it lies within [lower, upper], both ends
\* included.
C2_DateFilterInclusive ==
    (DateOnlyBounds /\ pc \in {"filter", "crashed", "returned"}) =>
        \A i \in 1..fidx :
            AwareDatetime(events_by_id[i].v) =>
                /\ ~(pc = "crashed" /\ i = fidx)
                /\ (WithinBounds(events_by_id[i].v) <=> DictHas(filtered, events_by_id[i].k))

----------------------------------------------------------------------------
(* Text: str.split, str.strip and float(), character by character *)

Chr(s, i) == SubSeq(s, i, i)

Digits == {"0", "1", "2", "3", "4", "5", "6", "7", "8", "9"}

DigitValue(c) ==
    CASE c = "0" -> 0 [] c = "1" -> 1 [] c = "2" -> 2 [] c = "3" -> 3 [] c = "4" -> 4
      [] c = "5" -> 5 [] c = "6" -> 6 [] c = "7" -> 7 [] c = "8" -> 8 [] c = "9" -> 9

Contains(s, c) == \E i \in 1..Len(s) : Chr(s, i) = c

\* s.split(sep) for a one-character sep
RECURSIVE Split(_, _)
Split(s, sep) ==
    IF ~Contains(s, sep) THEN <<s>>
    ELSE LET i == CHOOSE j \in 1..Len(s) :
                     Chr(s, j) = sep /\ \A h \in 1..(j - 1) : Chr(s, h) # sep
         IN <<SubSeq(s, 1, i - 1)>> \o Split(SubSeq(s, i + 1, Len(s)), sep)

\* s.strip()
RECURSIVE Strip(_)
Strip(s) ==
    IF s = "" THEN s
    ELSE IF Chr(s, 1) = " " THEN Strip(SubSeq(s, 2, Len(s)))
    ELSE IF Chr(s, Len(s)) = " " THEN Strip(SubSeq(s, 1, Len(s) - 1))
    ELSE s

RECURSIVE DigitsValue(_)
DigitsValue(s) ==
    IF s = "" THEN 0
    ELSE 10 * DigitsValue(SubSeq(s, 1, Len(s) - 1)) + DigitValue(Chr(s, Len(s)))

\* the digits after the point without the zeros that end them
RECURSIVE Fraction(_)
Fraction(s) ==
    IF s # "" /\ Chr(s, Len(s)) = "0" THEN Fraction(SubSeq(s, 1, Len(s) - 1)) ELSE s

Float(whole, frac) == [t |-> "float", whole |-> whole, frac |-> frac]
NotAFloat == [ok |-> FALSE, x |-> Float(0, "")]

\* float(s) on a text of digits, points, blanks and other characters: an
\* unsigned decimal with at most one point and at least one digit
ParseFloat(s) ==
    LET u == Strip(s)
        parts == Split(u, ".")
        whole == parts[1]
        frac == IF Len(parts) = 2 THEN parts[2] ELSE ""
    IN IF /\ Len(parts) <= 2
          /\ \A i \in 1..Len(u) : Chr(u, i) \in Digits \cup {"."}
          /\ whole \o frac # ""
       THEN [ok |-> TRUE, x |-> Float(DigitsValue(whole), Fraction(frac))]
       ELSE NotAFloat

\* lo <= x <= hi for whole numbers lo, hi
Within(x, lo, hi) == x.whole >= lo /\ (x.whole < hi \/ (x.whole = hi /\ x.frac = ""))

----------------------------------------------------------------------------
(* parse_gps_string, lines 53-81 *)

LatMin == 55
LatMax == 70
LonMin == 10
LonMax == 25

Coordinates(lat, lon) == [ok |-> TRUE, exc |-> "", lat |-> lat, lon |-> lon]
Raise(e) == [ok |-> FALSE, exc |-> e, lat |-> JNull, lon |-> JNull]

ParseGpsString_NoLonCheck(gps) ==
    LET parts == Split(gps.v, ",")
        lat == ParseFloat(Strip(parts[1]))
        lon == ParseFloat(Strip(parts[2]))
    IN IF gps.t # "str" THEN Raise("TypeError")
       ELSE IF ~Contains(gps.v, ",") \/ Len(parts) # 2 THEN Raise("ValueError")
       ELSE IF ~lat.ok \/ ~lon.ok THEN Raise("ValueError")
       ELSE IF ~Within(lat.x, LatMin, LatMax) THEN Raise("ValueError")
       ELSE Coordinates(lat.x, lon.x)

\* called with a truthy value only (line 330).  `',' not in gps_str` is a
\* TypeError on a number; on a list it is a membership test, and a list
\* that holds "," then has no split()
ParseGpsString(gps) ==
    LET parts == Split(gps.v, ",")
        lat == ParseFloat(Strip(parts[1]))
        lon == ParseFloat(Strip(parts[2]))
    IN IF gps.t \in {"int", "bool"} THEN Raise("TypeError")
       ELSE IF gps.t = "list" THEN
            (IF gps.v # "," THEN Raise("ValueError") ELSE Raise("AttributeError"))
       ELSE IF gps.v = "" \/ ~Contains(gps.v, ",") THEN Raise("ValueError")
       ELSE IF Len(parts) # 2 THEN Raise("ValueError")
       ELSE IF ~lat.ok \/ ~lon.ok THEN Raise("ValueError")
       ELSE IF ~Within(lat.x, LatMin, LatMax) THEN Raise("ValueError")
       ELSE IF ~Within(lon.x, LonMin, LonMax) THEN Raise("ValueError")
       ELSE Coordinates(lat.x, lon.x)

----------------------------------------------------------------------------
(* flatten_event_for_export, lines 307-352 *)

Update(e, fields) ==
    [key \in DOMAIN e \cup DOMAIN fields |->
        IF key \in DOMAIN fields THEN fields[key] ELSE e[key]]

HtmlFields == {"html_title", "html_preamble", "html_body", "html_published_datetime", "html_author"}

\* lines 316-323
BaseFields(e) ==
    [event_id |-> JStr(EventId(e)),
     datetime |-> Get(e, "datetime", JStr("")),
     name |-> Get(e, "name", JStr("")),
     summary |-> Get(e, "summary", JStr("")),
     url |-> Get(e, "url", JStr("")),
     type |-> Get(e, "type", JStr(""))]

\* lines 343-350
NarrativeFields(e) ==
    IF "html_available" \in DOMAIN e
    THEN [key \in HtmlFields \cup {"html_available"} |-> Get(e, key, JNull)]
    ELSE <<>>

\* the FlatRecord, or the exception that leaves the function: .get on a
\* 'location' that is no object is an AttributeError, and only ValueError
\* from parse_gps_string is caught
FlattenEventForExport(e) ==
    LET location == Get(e, "location", <<>>)
        gps_str == Get(location, "gps", JStr(""))
        g == ParseGpsString(gps_str)
        flat(lat, lon) ==
            [ok |-> TRUE, exc |-> "",
             rec |-> Update(Update(BaseFields(e),
                               [location_name |-> Get(location, "name", JStr("")),
                                latitude |-> lat, longitude |-> lon]),
                            NarrativeFields(e))]
    IN IF ~IsDict(location) THEN [ok |-> FALSE, exc |-> "AttributeError", rec |-> NoEvent]
       ELSE IF ~IsTrue(gps_str) THEN flat(JNull, JNull)
       ELSE IF g.ok THEN flat(g.lat, g.lon)
       ELSE IF g.exc = "ValueError" THEN flat(JNull, JNull)
       ELSE [ok |-> FALSE, exc |-> g.exc, rec |-> NoEvent]

\* one element of the comprehension of line 515
Flatten ==
    /\ pc = "flatten"
    /\ LET f == FlattenEventForExport(flat_event)
       IN /\ flattened' = f.rec
          /\ pc' = IF f.ok THEN "flattened" ELSE "crashed"
          /\ exc' = f.exc
    /\ UNCHANGED <<flat_event, mergeVars, filterVars, enrichVars, mainVars>>

MaxGpsLen == 5

GpsAlphabet == {"6", "2", "1", ",", ".", " ", "x"}

RECURSIVE Texts(_)
Texts(n) ==
    IF n = 0 THEN {""}
    ELSE LET shorter == Texts(n - 1)
         IN shorter \cup {s \o c : s \in shorter, c \in GpsAlphabet}

GpsValues ==
    {JNull, JInt("0"), JInt("5"), [t |-> "list", v |-> "x"], [t |-> "list", v |-> ","]}
    \cup {JStr(s) : s \in Texts(MaxGpsLen)}

Locations ==
    {JNull, JStr("Stockholm"), [name |-> JStr("Stockholm")]}
    \cup {[name |-> JStr("Stockholm"), gps |-> g] : g \in GpsValues}
    \cup {[gps |-> JStr("62,12")]}

FlattenInputs ==
    {[id |-> JInt("123"), name |-> JStr("A")]}
    \cup {[id |-> JInt("123"), name |-> JStr("A"), location |-> l] : l \in Locations}
    \cup {[id |-> JInt("123"), location |-> [gps |-> JStr(g)],
           html_available |-> [t |-> "bool", v |-> a], html_title |-> h] :
            g \in {"62,12", "62,x"}, a \in {"true", "false"}, h \in {JNull, JStr("T")}}

InitFlatten ==
    /\ pc = "flatten"
    /\ exc = ""
    /\ domain = "flatten"
    /\ commits = 0
    /\ idx = 0
    /\ history = <<>>
    /\ returned = <<>>
    /\ events_by_id = <<>>
    /\ total_extracted = 0
    /\ start_date = None
    /\ end_date = None
    /\ pyver = "3.11"
    /\ fidx = 0
    /\ filtered = <<>>
    /\ result = <<>>
    /\ flat_event \in FlattenInputs
    /\ flattened = NoEvent
    /\ IdleEnrich
    /\ IdleMain

NextFlatten == Flatten

SpecFlatten == InitFlatten /\ [][NextFlatten]_vars

----------------------------------------------------------------------------
(* Properties of the flattener *)

GpsOf(e) == Get(Get(e, "location", <<>>), "gps", JNull)

CommaPositions(s) == {i \in 1..Len(s) : Chr(s, i) = ","}

\* "<float>,<float>" within [55, 70] x [10, 25]
WellFormedInBounds(s) ==
    /\ Cardinality(CommaPositions(s)) = 1
    /\ LET i == CHOOSE j \in CommaPositions(s) : TRUE
           a == ParseFloat(SubSeq(s, 1, i - 1))
           b == ParseFloat(SubSeq(s, i + 1, Len(s)))
       IN /\ a.ok /\ Within(a.x, 55, 70)
          /\ b.ok /\ Within(b.x, 10, 25)

LeftNumber(s) == ParseFloat(SubSeq(s, 1, (CHOOSE j \in CommaPositions(s) : TRUE) - 1)).x
RightNumber(s) == ParseFloat(SubSeq(s, (CHOOSE j \in CommaPositions(s) : TRUE) + 1, Len(s))).x

\* C3: a FlatRecord has latitude and longitude both null or both numbers;
\* numbers are the two numbers of the 'location.gps' text and lie in
\* [55, 70] and [10, 25]; a gps text always flattens, to those numbers
\* when it is "<float>,<float>" within the bounds and to null/null when it
\* is empty, has no or several commas, a side that is no number, or a
\* number out of bounds.
C3_Coordinates ==
    /\ (pc = "flattened" =>
          /\ (flattened.latitude = JNull <=> flattened.longitude = JNull)
          /\ (flattened.latitude # JNull =>
                /\ GpsOf(flat_event).t = "str"
                /\ flattened.latitude = LeftNumber(GpsOf(flat_event).v)
                /\ flattened.longitude = RightNumber(GpsOf(flat_event).v)
                /\ Within(flattened.latitude, 55, 70)
                /\ Within(flattened.longitude, 10, 25)))
    /\ ((pc \in {"flattened", "crashed"}
         /\ IsDict(Get(flat_event, "location", <<>>))
         /\ GpsOf(flat_event).t = "str") =>
          /\ pc = "flattened"
          /\ IF WellFormedInBounds(GpsOf(flat_event).v)
             THEN flattened.latitude # JNull /\ flattened.longitude # JNull
             ELSE flattened.latitude = JNull /\ flattened.longitude = JNull)

\* C3 witness: "62,12" flattened to latitude 62 and longitude 12.
C3_Witness ==
    /\ pc = "flattened"
    /\ GpsOf(flat_event) = JStr("62,12")
    /\ flattened.latitude = Float(62, "")
    /\ flattened.longitude = Float(12, "")

\* C6: flatten_event_for_export returns a FlatRecord for every record,
\* whatever its 'location' and 'gps' are, and never raises.
C6_FlattenTotal ==
    pc \in {"flattened", "crashed"} =>
        /\ pc = "flattened"
        /\ {"event_id", "location_name", "latitude", "longitude"} \subseteq DOMAIN flattened

----------------------------------------------------------------------------
(* extract_html_data, lines 84-145 *)

\* '\n'.join(p.text_content().strip() for p in paragraphs)
RECURSIVE JoinStripped(_)
JoinStripped(ps) ==
    IF ps = <<>> THEN ""
    ELSE IF Len(ps) = 1 THEN Strip(ps[1])
    ELSE Strip(ps[1]) \o "\n" \o JoinStripped(Tail(ps))

\* a document: the texts of the h1, p.preamble and span elements under the
\* container, the paragraphs of the body division when there is one, and
\* the datetime attribute of time.date ("" when it is empty or absent)
NoContainer(doc) == ~doc.container

ExtractHtmlData(doc) ==
    IF doc.kind = "unreadable" THEN [ok |-> FALSE, exc |-> "OSError", data |-> <<>>]
    ELSE IF NoContainer(doc) THEN [ok |-> FALSE, exc |-> "ValueError", data |-> <<>>]
    ELSE [ok |-> TRUE, exc |-> "",
          data |->
            [html_title |-> IF doc.h1 # <<>> THEN JStr(Strip(doc.h1[1])) ELSE JNull,
             html_preamble |-> IF doc.preamble # <<>> THEN JStr(Strip(doc.preamble[1])) ELSE JNull,
             html_body |-> IF doc.body.present THEN JStr(JoinStripped(doc.body.ps)) ELSE JNull,
             html_published_datetime |->
                 IF doc.time.present /\ doc.time.datetime # ""
                 THEN JStr(doc.time.datetime) ELSE JNull,
             html_author |-> IF Len(doc.spans) > 1 THEN JStr(Strip(doc.spans[2])) ELSE JNull,
             html_available |-> [t |-> "bool", v |-> "true"]]]

----------------------------------------------------------------------------
(* enrich_with_html, lines 259-304 *)

NotAvailable ==
    [key \in HtmlFields |-> JNull] @@ [html_available |-> [t |-> "bool", v |-> "false"]]

EnrichOne_KeepsFields(e, doc) ==
    IF doc.kind = "missing" THEN Update(e, NotAvailable)
    ELSE IF ExtractHtmlData(doc).ok THEN Update(e, ExtractHtmlData(doc).data)
    ELSE Update(e, [html_available |-> [t |-> "bool", v |-> "false"]])

\* the body of the loop of line 275: the record after it
EnrichOne(e, doc) ==
    IF doc.kind = "missing" THEN Update(e, NotAvailable)
    ELSE IF ExtractHtmlData(doc).ok THEN Update(e, ExtractHtmlData(doc).data)
    ELSE Update(e, NotAvailable)

Documents ==
    [kind : {"document"}, container : {TRUE},
     h1 : {<<>>, <<" Brand ", "Other">>},
     preamble : {<<>>, <<"Summary">>},
     body : {[present |-> FALSE, ps |-> <<>>], [present |-> TRUE, ps |-> <<" a", "b ">>]},
     time : {[present |-> FALSE, datetime |-> ""], [present |-> TRUE, datetime |-> ""],
             [present |-> TRUE, datetime |-> "2024-01-01T10:00:00+01:00"]},
     spans : {<<"Publicerad">>, <<"Publicerad", " Polisen ">>}]

BrokenDocument ==
    [kind |-> "document", container |-> FALSE, h1 |-> <<"Brand">>, preamble |-> <<>>,
     body |-> [present |-> FALSE, ps |-> <<>>], time |-> [present |-> FALSE, datetime |-> ""],
     spans |-> <<>>]

\* what the loop can find at html_dir / "<event_id>.html"
DocStates ==
    Documents
    \cup {BrokenDocument, [BrokenDocument EXCEPT !.kind = "missing"],
          [BrokenDocument EXCEPT !.kind = "unreadable"]}

\* one turn of the loop of line 275
EnrichEvent ==
    /\ pc = "enrich"
    /\ eidx < Len(enriched)
    /\ \E doc \in DocStates :
         /\ docs' = Append(docs, doc)
         /\ enriched' = [enriched EXCEPT ![eidx + 1].v = EnrichOne(@, doc)]
    /\ eidx' = eidx + 1
    /\ UNCHANGED <<pc, exc, mergeVars, filterVars, flatVars, mainVars>>

\* lines 302-304
EnrichReturn ==
    /\ pc = "enrich"
    /\ eidx = Len(enriched)
    /\ pc' = "enriched"
    /\ UNCHANGED <<exc, mergeVars, filterVars, flatVars, enrichVars, mainVars>>

MaxEnrich == 2

\* a record as merged, and one whose stored JSON already has narrative keys
EnrichInputs(i) ==
    {[id |-> JStr(i), name |-> JStr("A")],
     [id |-> JStr(i), name |-> JStr("A"), html_title |-> JStr("stale"),
      html_author |-> JStr("stale")]}

InitEnrich ==
    /\ pc = "enrich"
    /\ exc = ""
    /\ domain = "enrich"
    /\ commits = 0
    /\ idx = 0
    /\ history = <<>>
    /\ returned = <<>>
    /\ events_by_id = <<>>
    /\ total_extracted = 0
    /\ start_date = None
    /\ end_date = None
    /\ pyver = "3.11"
    /\ fidx = 0
    /\ filtered = <<>>
    /\ result = <<>>
    /\ IdleFlat
    /\ \E n \in 1..MaxEnrich, first \in EnrichInputs("1") :
         enriched = [i \in 1..n |->
                       IF i = 1 THEN [k |-> "1", v |-> first]
                       ELSE [k |-> ToString(i), v |-> [id |-> JStr(ToString(i)), name |-> JStr("A")]]]
    /\ eidx = 0
    /\ docs = <<>>
    /\ IdleMain

NextEnrich == EnrichEvent \/ EnrichReturn

SpecEnrich == InitEnrich /\ [][NextEnrich]_vars

\* the document was found and extraction completed without raising
Extracted(doc) == doc.kind = "document" /\ doc.container

\* C4: after the enrichment loop has been through a record, html_available
\* is true exactly when its document was found and extraction completed;
\* when it is false all five narrative fields are null; and a missing or
\* malformed document never stops the loop, which goes on to the end.
C4_AvailabilityConsistent ==
    /\ pc \in {"enrich", "enriched"}
    /\ (pc = "enriched" => eidx = Len(enriched))
    /\ \A i \in 1..eidx :
          LET e == enriched[i].v
          IN /\ "html_available" \in DOMAIN e
             /\ e.html_available.t = "bool"
             /\ (e.html_available.v = "true" <=> Extracted(docs[i]))
             /\ (e.html_available.v = "false" =>
                   \A key \in HtmlFields : key \in DOMAIN e /\ e[key] = JNull)

\* C4 witness: a record with stored narrative keys whose document lacks
\* the container, then a record whose document is missing, both left with
\* html_available false and null fields, and the loop returned.
C4_Witness ==
    /\ pc = "enriched"
    /\ Len(docs) = 2
    /\ docs[1] = BrokenDocument
    /\ docs[2].kind = "missing"
    /\ "html_title" \in DOMAIN enriched[1].v
    /\ enriched[1].v.html_title = JNull
    /\ enriched[1].v.html_available.v = "false"
    /\ enriched[2].v.html_available.v = "false"

----------------------------------------------------------------------------
(* get_format_from_filename, lines 396-410 *)

Upper == <<"A", "B", "C", "D", "E", "F", "G", "H", "I", "J", "K", "L", "M",
           "N", "O", "P", "Q", "R", "S", "T", "U", "V", "W", "X", "Y", "Z">>
Lower == <<"a", "b", "c", "d", "e", "f", "g", "h", "i", "j", "k", "l", "m",
           "n", "o", "p", "q", "r", "s", "t", "u", "v", "w", "x", "y", "z">>

LowerChar(c) ==
    IF \E i \in 1..Len(Upper) : Upper[i] = c
    THEN Lower[CHOOSE i \in 1..Len(Upper) : Upper[i] = c]
    ELSE c

\* str.lower()
RECURSIVE ToLower(_)
ToLower(s) == IF s = "" THEN "" ELSE LowerChar(Chr(s, 1)) \o ToLower(SubSeq(s, 2, Len(s)))

\* Path.suffix: from the last point of the last component, unless that
\* point starts or ends the component
Suffix(path) ==
    LET comps == Split(path, "/")
        name == comps[Len(comps)]
        dots == {i \in 1..Len(name) : Chr(name, i) = "."}
        last == CHOOSE i \in dots : \A j \in dots : j <= i
    IN IF dots = {} THEN ""
       ELSE IF 1 < last /\ last < Len(name) THEN SubSeq(name, last, Len(name))
       ELSE ""

GetFormatFromFilename_Default(output_path) ==
    LET ext == ToLower(Suffix(output_path))
    IN CASE ext = ".parquet" -> "parquet"
         [] ext = ".jsonl" -> "jsonl"
         [] OTHER -> "json"

\* the format, or "ValueError" for the exception of line 407
GetFormatFromFilename(output_path) ==
    LET ext == ToLower(Suffix(output_path))
    IN CASE ext = ".parquet" -> "parquet"
         [] ext = ".json" -> "json"
         [] ext = ".jsonl" -> "jsonl"
         [] OTHER -> "ValueError"

----------------------------------------------------------------------------
(* main, lines 413-527.  `stages` logs each pipeline stage as it starts.  *)

Outputs == {"events.parquet", "out/events.JSON", "events.jsonl", "events.csv", "events", ".json"}

\* lines 476-494: a bound that does not parse is logged and ends the run
MainParseDates ==
    /\ pc = "main"
    /\ IF ~ParseStartDate(args.start, pyver).ok
       THEN pc' = "exit" /\ exc' = "SystemExit: invalid start date"
                         /\ UNCHANGED <<start_date, end_date>>
       ELSE IF ~ParseEndDate(args.end, pyver).ok
       THEN pc' = "exit" /\ exc' = "SystemExit: invalid end date"
                         /\ start_date' = ParseStartDate(args.start, pyver).dt
                         /\ UNCHANGED end_date
       ELSE /\ pc' = "archaeology"
            /\ exc' = exc
            /\ start_date' = ParseStartDate(args.start, pyver).dt
            /\ end_date' = ParseEndDate(args.end, pyver).dt
    /\ UNCHANGED <<mergeVars, pyver, fidx, filtered, result, flatVars, enrichVars, mainVars>>

MainRecordGood == [id |-> JStr("1"), location |-> [name |-> JStr("Umea"), gps |-> JStr("62,12")]]
MainRecordBadGps == [id |-> JStr("2"), location |-> [gps |-> JStr("62,x")]]
MainRecordNoLocation == [id |-> JStr("3"), location |-> JNull]

\* the mappings extract_all_events hands back in these runs
MainResults ==
    {<<>>,
     <<[k |-> "1", v |-> MainRecordGood]>>,
     <<[k |-> "1", v |-> MainRecordGood], [k |-> "2", v |-> MainRecordBadGps]>>,
     <<[k |-> "1", v |-> MainRecordGood], [k |-> "3", v |-> MainRecordNoLocation]>>}

Filtering == start_date.set \/ end_date.set

StagesOfExtract == IF Filtering THEN <<"enumerate", "extract_merge", "filter">>
                   ELSE <<"enumerate", "extract_merge">>

\* line 498: the call of extract_all_events, with the ways it can end:
\* sys.exit in get_all_commits, an exception out of the merge loop or out
\* of the filter, or a mapping
MainExtractAllEvents ==
    /\ pc = "archaeology"
    /\ \/ /\ stages' = <<"enumerate">>
          /\ pc' = "exit"
          /\ exc' = "SystemExit: git log failed"
          /\ result' = result
       \/ /\ stages' = <<"enumerate", "extract_merge">>
          /\ pc' = "crashed"
          /\ exc' = "AttributeError"
          /\ result' = result
       \/ /\ Filtering
          /\ stages' = StagesOfExtract
          /\ pc' = "crashed"
          /\ exc' = "TypeError"
          /\ result' = result
       \/ /\ stages' = StagesOfExtract
          /\ pc' = "check_events"
          /\ exc' = exc
          /\ result' \in MainResults
    /\ UNCHANGED <<mergeVars, start_date, end_date, pyver, fidx, filtered, flatVars, enrichVars>>
    /\ UNCHANGED <<args, html_dir_exists, written, events_list>>

\* lines 500-502
MainCheckEvents ==
    /\ pc = "check_events"
    /\ IF result = <<>>
       THEN pc' = "exit" /\ exc' = "SystemExit: no events found"
       ELSE pc' = "html" /\ exc' = exc
    /\ UNCHANGED <<mergeVars, filterVars, flatVars, enrichVars, mainVars>>

HtmlDirMissing_Unchecked == FALSE

\* lines 505-506
HtmlDirMissing == args.include_html /\ ~html_dir_exists

\* enrich_with_html on the whole mapping, given the document of each record
EnrichAll(d, ds) == [i \in 1..Len(d) |-> [k |-> d[i].k, v |-> EnrichOne(d[i].v, ds[i])]]

\* what the document store can hold for a record when the directory is
\* there, and when it is not
DocStatesIn(dir_exists) ==
    IF dir_exists THEN {BrokenDocument, [BrokenDocument EXCEPT !.kind = "missing"],
                        [BrokenDocument EXCEPT !.container = TRUE]}
    ELSE {[BrokenDocument EXCEPT !.kind = "missing"]}

\* lines 505-511
MainHtml ==
    /\ pc = "html"
    /\ IF HtmlDirMissing
       THEN /\ pc' = "exit"
            /\ exc' = "SystemExit: HTML directory not found"
            /\ UNCHANGED <<result, stages>>
       ELSE IF args.include_html
       THEN /\ \E ds \in [1..Len(result) -> DocStatesIn(html_dir_exists)] :
                 result' = EnrichAll(result, ds)
            /\ stages' = Append(stages, "enrich")
            /\ pc' = "flatten_all"
            /\ exc' = exc
       ELSE /\ pc' = "flatten_all"
            /\ exc' = exc
            /\ UNCHANGED <<result, stages>>
    /\ UNCHANGED <<mergeVars, start_date, end_date, pyver, fidx, filtered, flatVars, enrichVars>>
    /\ UNCHANGED <<args, html_dir_exists, written, events_list>>

\* line 515: the records flattened before the first that raises
RECURSIVE FlattenAll(_, _)
FlattenAll(d, i) ==
    IF i > Len(d) THEN [ok |-> TRUE, exc |-> "", list |-> <<>>]
    ELSE LET f == FlattenEventForExport(d[i].v)
             rest == FlattenAll(d, i + 1)
         IN IF ~f.ok THEN [ok |-> FALSE, exc |-> f.exc, list |-> <<>>]
            ELSE [ok |-> rest.ok, exc |-> rest.exc,
                  list |-> IF rest.ok THEN <<f.rec>> \o rest.list ELSE <<>>]

\* lines 513-515
MainFlatten ==
    /\ pc = "flatten_all"
    /\ LET f == FlattenAll(result, 1)
       IN /\ events_list' = f.list
          /\ pc' = IF f.ok THEN "format" ELSE "crashed"
          /\ exc' = IF f.ok THEN exc ELSE f.exc
    /\ stages' = Append(stages, "flatten")
    /\ UNCHANGED <<mergeVars, filterVars, flatVars, enrichVars, args, html_dir_exists, written>>

\* line 518
MainFormat ==
    /\ pc = "format"
    /\ IF GetFormatFromFilename(args.output) = "ValueError"
       THEN pc' = "crashed" /\ exc' = "ValueError: unknown file extension"
       ELSE pc' = "export" /\ exc' = exc
    /\ UNCHANGED <<mergeVars, filterVars, flatVars, enrichVars, mainVars>>

\* lines 520-525: the writer opens the output path and writes; it may fail
\* before it has touched the path, or after
MainExport ==
    /\ pc = "export"
    /\ stages' = Append(stages, "export")
    /\ \/ written' = TRUE /\ pc' = "done" /\ exc' = exc
       \/ written' \in BOOLEAN /\ pc' = "crashed" /\ exc' = "export failed"
    /\ UNCHANGED <<mergeVars, filterVars, flatVars, enrichVars, args, html_dir_exists, events_list>>

InitMain ==
    /\ pc = "main"
    /\ exc = ""
    /\ domain = "main"
    /\ commits = 0
    /\ idx = 0
    /\ history = <<>>
    /\ returned = <<>>
    /\ events_by_id = <<>>
    /\ total_extracted = 0
    /\ start_date = None
    /\ end_date = None
    /\ pyver \in {"3.10", "3.11"}
    /\ fidx = 0
    /\ filtered = <<>>
    /\ result = <<>>
    /\ IdleFlat
    /\ IdleEnrich
    /\ args \in [output : Outputs, include_html : BOOLEAN, start : StartArgs, end : EndArgs]
    /\ html_dir_exists \in BOOLEAN
    /\ stages = <<>>
    /\ written = FALSE
    /\ events_list = <<>>

NextMain ==
    \/ MainParseDates
    \/ MainExtractAllEvents
    \/ MainCheckEvents
    \/ MainHtml
    \/ MainFlatten
    \/ MainFormat
    \/ MainExport

SpecMain == InitMain /\ [][NextMain]_vars

----------------------------------------------------------------------------
(* Properties of main *)

Started(stage) == \E i \in 1..Len(stages) : stages[i] = stage

Unrecognized(output_path) == ToLower(Suffix(output_path)) \notin {".parquet", ".json", ".jsonl"}

\* C5: when the run ends on the unrecognized-extension error, no pipeline
\* stage (history enumeration, extraction and merge, date filter,
\* enrichment, flattening) has started.
C5_UnknownExtensionBeforePipeline ==
    (pc = "crashed" /\ exc = "ValueError: unknown file extension") => stages = <<>>

\* C8 as stated: when the run ends on the missing narrative directory,
\* history enumeration, snapshot extraction and merge have not started.
C8_AbortBeforeProcessing ==
    (pc = "exit" /\ exc = "SystemExit: HTML directory not found") => stages = <<>>

\* C8 as amended: with enrichment requested and the directory missing, the
\* enrichment pass, the flattening and the write never start and the run
\* never completes; the abort on the missing directory comes after history
\* enumeration, extraction, merge and the date filter (when bounds are
\* given) have run and left at least one record.
C8_AbortBeforeEnrichment ==
    /\ (args.include_html /\ ~html_dir_exists) =>
          /\ ~Started("enrich") /\ ~Started("flatten") /\ ~Started("export")
          /\ ~written
          /\ pc \notin {"flatten_all", "format", "export", "done"}
    /\ (pc = "exit" /\ exc = "SystemExit: HTML directory not found") =>
          /\ args.include_html /\ ~html_dir_exists
          /\ stages = StagesOfExtract
          /\ result # <<>>

\* C8 witness: the abort on the missing directory, after the walk, the
\* merge and the filter.
C8_Witness ==
    /\ pc = "exit"
    /\ exc = "SystemExit: HTML directory not found"
    /\ stages = <<"enumerate", "extract_merge", "filter">>
    /\ Len(result) = 2

\* C9: the output path is written to only once the walk, the merge, the
\* filter, the enrichment (when requested) and the flattening of every
\* record are over; a run that ended on a fatal condition, on an
\* unrecognized extension or on an exception in a pipeline stage has not
\* written to it.
C9_WriteAfterPipeline ==
    /\ written =>
          /\ pc \in {"done", "crashed"}
          /\ stages = StagesOfExtract
                      \o (IF args.include_html THEN <<"enrich">> ELSE <<>>)
                      \o <<"flatten", "export">>
          /\ result # <<>>
          /\ Len(events_list) = Len(result)
    /\ (pc = "exit" => ~written)
    /\ (pc = "crashed" /\ exc # "export failed" => ~written)
    /\ (Unrecognized(args.output) => ~written)
    /\ (~Started("export") => ~written)

\* C9 witness: a completed run with enrichment that wrote two records.
C9_Witness ==
    /\ pc = "done"
    /\ written
    /\ Started("enrich")
    /\ Len(events_list) = 2

====
